---- MODULE Spec2Model ----
(***************************************************************************)
(* The scheme eligibility wizard of AgriSahayak (src/unnamed/part_000,     *)
(* "ELIGIBILITY CHECK SYSTEM"): the question list, the answer store, the   *)
(* navigation handlers, and the evaluation, scoring and ranking of the     *)
(* scheme catalog done by showEligibilityResults.                          *)
(*                                                                         *)
(* A JavaScript value held in eligibilityAnswers is a record               *)
(*   [t |-> "undef" | "str" | "arr", s |-> the string, a |-> the array]    *)
(* so that undefined, '' and [] stay three different values, as they are   *)
(* for the truthiness tests of the handlers.                               *)
(***************************************************************************)
EXTENDS Integers, Sequences, FiniteSets, TLC

VARIABLES
    eligibilityStep,      \* let eligibilityStep
    eligibilityAnswers,   \* let eligibilityAnswers: question id -> value
    modalActive,          \* #eligibility-modal has class 'active'
    view,                 \* content of #eligibility-questions: "none", "question", "results"
    selectedDom,          \* option values shown as selected in the rendered question
    prevDisplay,          \* #eligibility-prev style.display
    footerDisplay,        \* .eligibility-footer style.display
    results,              \* the sorted results array of the run that is on screen
    displayed,            \* what that run rendered: eligibleCount and results.slice(0, 8)
    catalog,              \* the SCHEMES array: scheme ids in their current order
    lastOp,               \* the handler that ran last, its arguments and what it did
    touched               \* question ids written since the last startEligibilityCheck

vars == <<eligibilityStep, eligibilityAnswers, modalActive, view, selectedDom,
          prevDisplay, footerDisplay, results, displayed, catalog, lastOp, touched>>

----------------------------------------------------------------------------
(* Bounds *)

\* how many options of each question (in declaration order) the wizard runs click
MaxOptions == 2

\* longest interests list of the answer stores the evaluation runs start from
MaxInterests == 3

----------------------------------------------------------------------------
(* JavaScript values *)

Undef == [t |-> "undef", s |-> "", a |-> <<>>]
Str(v) == [t |-> "str", s |-> v, a |-> <<>>]
Arr(l) == [t |-> "arr", s |-> "", a |-> l]

\* !x
Falsy(x) == x.t = "undef" \/ (x.t = "str" /\ x.s = "")

\* Array.isArray(x) && x.length === 0
IsEmptyArray(x) == x.t = "arr" /\ Len(x.a) = 0

\* [..].includes(x) for an array literal of strings: strict equality with a string
StrIn(x, S) == x.t = "str" /\ x.s \in S

\* Includes that looks at the first element only
IncludesFirstOnly(x, v) == x.t = "arr" /\ Len(x.a) > 0 /\ x.a[1] = v

\* x?.includes(v) for the interests answer (undefined or an array)
Includes(x, v) == x.t = "arr" /\ \E i \in 1..Len(x.a) : x.a[i] = v

\* (x || []) for the interests answer
OrEmpty(x) == IF x.t = "arr" THEN x.a ELSE <<>>

\* list.indexOf(v): 0-based index of the first occurrence, -1 when there is none
IndexOf(list, v) ==
    IF \E i \in 1..Len(list) : list[i] = v
    THEN (CHOOSE i \in 1..Len(list) : list[i] = v /\ \A j \in 1..(i - 1) : list[j] # v) - 1
    ELSE -1

\* list.push(v)
Push(list, v) == Append(list, v)

\* list.splice(idx, 1), idx 0-based
Splice1(list, idx) == SubSeq(list, 1, idx) \o SubSeq(list, idx + 2, Len(list))

\* a slice that starts one element late: list.slice(1, n + 1)
Slice0FromSecond(list, n) == SubSeq(list, 2, IF Len(list) < n + 1 THEN Len(list) ELSE n + 1)

\* list.slice(0, n)
Slice0(list, n) == SubSeq(list, 1, IF Len(list) < n THEN Len(list) ELSE n)

----------------------------------------------------------------------------
(* Static data *)

\* the ids of const SCHEMES, in declaration order
SCHEMES ==
    <<"pmfby", "pmkisan", "kcc", "pmksy", "soil", "enam", "pkvy", "pmkmy", "aif",
      "pmfme", "smam", "rkvy", "nfsm", "midh", "acabc", "nmsa", "deds", "gobar">>

eligibilityQuestions ==
    << [id |-> "land_size", type |-> "select",
        options |-> <<"marginal", "small", "medium", "large">>],
       [id |-> "farmer_type", type |-> "options",
        options |-> <<"owner", "tenant", "sharecropper", "landless">>],
       [id |-> "age", type |-> "options",
        options |-> <<"18-30", "30-40", "40-60", "60+">>],
       [id |-> "interests", type |-> "multi",
        options |-> <<"credit", "insurance", "subsidy", "pension", "irrigation", "organic">>],
       [id |-> "category", type |-> "options",
        options |-> <<"general", "sc", "st", "obc", "woman">>] >>

QuestionIds == {eligibilityQuestions[i].id : i \in 1..Len(eligibilityQuestions)}

\* LastStep one too small
LastStepOffByOne == Len(eligibilityQuestions) - 2

\* eligibilityQuestions.length - 1
LastStep == Len(eligibilityQuestions) - 1

\* eligibilityQuestions[eligibilityStep]
CurrentQuestion == eligibilityQuestions[eligibilityStep + 1]

OptionSet(q) == {q.options[i] : i \in 1..Len(q.options)}

\* an identifier that is no question's id, and a value passed with it
UnknownId == "soil_type"

UnknownValue == "loam"

\* the keys eligibilityAnswers is read and written with (any key of the object can be set)
Keys == QuestionIds \cup {UnknownId}

\* eligibilityAnswers = {}
EmptyAnswers == [id \in Keys |-> Undef]

----------------------------------------------------------------------------
(* showEligibilityResults: evaluation and scoring of one scheme.            *)
(* r is the triple of locals [eligible, reasons, matchScore]; every rule    *)
(* block of the forEach body is one operator from r to r.                   *)

NewVerdict == [eligible |-> TRUE, reasons |-> <<>>, matchScore |-> 0]

Reject(r, reason) == [r EXCEPT !.eligible = FALSE, !.reasons = Push(@, reason)]

Bonus(r, n) == [r EXCEPT !.matchScore = @ + n]

\* RulePmkisan with 'medium' left out of the excluded brackets
RulePmkisanLargeOnly(answers, scheme, r) ==
    IF scheme = "pmkisan"
    THEN IF StrIn(answers["land_size"], {"large"})
         THEN Reject(r, "Land holding exceeds 2 hectares limit")
         ELSE Bonus(r, 20)
    ELSE r

\* PM-KISAN: small and marginal farmers only
RulePmkisan(answers, scheme, r) ==
    IF scheme = "pmkisan"
    THEN IF StrIn(answers["land_size"], {"large", "medium"})
         THEN Reject(r, "Land holding exceeds 2 hectares limit")
         ELSE Bonus(r, 20)
    ELSE r

\* RulePmkmy with the land test before the age test
RulePmkmyLandFirst(answers, scheme, r) ==
    IF scheme = "pmkmy"
    THEN LET r1 == IF StrIn(answers["land_size"], {"large", "medium"})
                   THEN Reject(r, "Land holding exceeds 2 hectares limit")
                   ELSE r
             r2 == IF ~StrIn(answers["age"], {"18-30", "30-40"})
                   THEN Reject(r1, "Age must be between 18-40 years to enroll")
                   ELSE r1
         IN  IF Includes(answers["interests"], "pension") THEN Bonus(r2, 30) ELSE r2
    ELSE r

\* PM-KISAN Maandhan: age 18-40, land up to 2 hectares
RulePmkmy(answers, scheme, r) ==
    IF scheme = "pmkmy"
    THEN LET r1 == IF ~StrIn(answers["age"], {"18-30", "30-40"})
                   THEN Reject(r, "Age must be between 18-40 years to enroll")
                   ELSE r
             r2 == IF StrIn(answers["land_size"], {"large", "medium"})
                   THEN Reject(r1, "Land holding exceeds 2 hectares limit")
                   ELSE r1
         IN  IF Includes(answers["interests"], "pension") THEN Bonus(r2, 30) ELSE r2
    ELSE r

\* RuleKcc that admits owner cultivators only
RuleKccOwnersOnly(answers, scheme, r) ==
    IF scheme = "kcc"
    THEN LET r1 == IF answers["farmer_type"] # Str("owner")
                   THEN Reject(r, "Must be owner/tenant/sharecropper")
                   ELSE r
         IN  IF Includes(answers["interests"], "credit") THEN Bonus(r1, 30) ELSE r1
    ELSE r

\* RuleKcc with the landless test inside the credit-interest test
RuleKccNestedTest(answers, scheme, r) ==
    IF scheme = "kcc"
    THEN IF Includes(answers["interests"], "credit")
         THEN Bonus(IF answers["farmer_type"] = Str("landless")
                    THEN Reject(r, "Must be owner/tenant/sharecropper")
                    ELSE r, 30)
         ELSE r
    ELSE r

\* KCC
RuleKcc(answers, scheme, r) ==
    IF scheme = "kcc"
    THEN LET r1 == IF answers["farmer_type"] = Str("landless")
                   THEN Reject(r, "Must be owner/tenant/sharecropper")
                   ELSE r
         IN  IF Includes(answers["interests"], "credit") THEN Bonus(r1, 30) ELSE r1
    ELSE r

\* PMFBY, PMKSY and the organic schemes: a bonus for the matching interest
RuleCategoryBonus(answers, scheme, r) ==
    LET r1 == IF scheme = "pmfby" /\ Includes(answers["interests"], "insurance")
              THEN Bonus(r, 30) ELSE r
        r2 == IF scheme = "pmksy" /\ Includes(answers["interests"], "irrigation")
              THEN Bonus(r1, 30) ELSE r1
    IN  IF scheme \in {"pkvy", "gobar"} /\ Includes(answers["interests"], "organic")
        THEN Bonus(r2, 30) ELSE r2

\* RuleScSt that tests for 'sc' only
RuleScStScOnly(answers, scheme, r) ==
    IF StrIn(answers["category"], {"sc"}) /\ scheme \in {"smam", "deds", "midh"}
    THEN [Bonus(r, 15) EXCEPT !.reasons = Push(@, "Higher subsidy rate for SC/ST (33% vs 25%)")]
    ELSE r

\* SC/ST get a higher subsidy in some schemes
RuleScSt(answers, scheme, r) ==
    IF StrIn(answers["category"], {"sc", "st"}) /\ scheme \in {"smam", "deds", "midh"}
    THEN [Bonus(r, 15) EXCEPT !.reasons = Push(@, "Higher subsidy rate for SC/ST (33% vs 25%)")]
    ELSE r

\* RuleLandPriority that leaves out the 'small' bracket
RuleLandPriorityMarginalOnly(answers, scheme, r) ==
    IF StrIn(answers["land_size"], {"marginal"}) THEN Bonus(r, 10) ELSE r

\* RuleLandPriority that gives the priority to eligible schemes only
RuleLandPriorityEligibleOnly(answers, scheme, r) ==
    IF r.eligible /\ StrIn(answers["land_size"], {"marginal", "small"}) THEN Bonus(r, 10) ELSE r

\* small and marginal farmers get priority
RuleLandPriority(answers, scheme, r) ==
    IF StrIn(answers["land_size"], {"marginal", "small"}) THEN Bonus(r, 10) ELSE r

\* const interestMap; an interest that is no key gives undefined, so no scheme
interestMap(interest) ==
    CASE interest = "credit" -> {"kcc", "aif", "acabc"}
      [] interest = "insurance" -> {"pmfby"}
      [] interest = "subsidy" -> {"pmkisan", "soil", "smam", "nfsm", "pmfme", "rkvy"}
      [] interest = "irrigation" -> {"pmksy"}
      [] interest = "organic" -> {"pkvy", "gobar"}
      [] interest = "pension" -> {"pmkmy"}
      [] OTHER -> {}

\* InterestScore that looks at the first selected interest only
InterestScoreFirstOnly(list, scheme) ==
    IF list = <<>> THEN 0
    ELSE IF scheme \in interestMap(Head(list)) THEN 20 ELSE 0

\* (answers.interests || []).forEach(...): 20 for every listed interest that maps to the scheme
RECURSIVE InterestScore(_, _)
InterestScore(list, scheme) ==
    IF list = <<>> THEN 0
    ELSE (IF scheme \in interestMap(Head(list)) THEN 20 ELSE 0)
         + InterestScore(Tail(list), scheme)

\* RuleInterests that scores the interests of eligible schemes only
RuleInterestsEligibleOnly(answers, scheme, r) ==
    IF r.eligible THEN Bonus(r, InterestScore(OrEmpty(answers["interests"]), scheme)) ELSE r

RuleInterests(answers, scheme, r) ==
    Bonus(r, InterestScore(OrEmpty(answers["interests"]), scheme))

\* the body of SCHEMES.forEach: the rule blocks in source order, then results.push
EvaluateScheme(answers, scheme) ==
    LET r1 == RulePmkisan(answers, scheme, NewVerdict)
        r2 == RulePmkmy(answers, scheme, r1)
        r3 == RuleKcc(answers, scheme, r2)
        r4 == RuleCategoryBonus(answers, scheme, r3)
        r5 == RuleScSt(answers, scheme, r4)
        r6 == RuleLandPriority(answers, scheme, r5)
        r7 == RuleInterests(answers, scheme, r6)
    IN  [scheme |-> scheme, eligible |-> r7.eligible, reasons |-> r7.reasons,
         matchScore |-> r7.matchScore]

\* EvaluateAll with a loop that stops one scheme short
EvaluateAllButLast(answers) ==
    [i \in 1..(Len(catalog) - 1) |-> EvaluateScheme(answers, catalog[i])]

\* the results array after SCHEMES.forEach
EvaluateAll(answers) == [i \in 1..Len(catalog) |-> EvaluateScheme(answers, catalog[i])]

----------------------------------------------------------------------------
(* showEligibilityResults: ranking *)

\* a boolean used as a number
Num(b) == IF b THEN 1 ELSE 0

\* compare without the eligibility key
compareScoreOnly(a, b) == b.matchScore - a.matchScore

\* compare with the score key reversed
compareAscending(a, b) ==
    IF a.eligible # b.eligible
    THEN Num(b.eligible) - Num(a.eligible)
    ELSE a.matchScore - b.matchScore

\* compare with the eligibility key reversed
compareIneligibleFirst(a, b) ==
    IF a.eligible # b.eligible
    THEN Num(a.eligible) - Num(b.eligible)
    ELSE b.matchScore - a.matchScore

\* the comparator handed to results.sort
compare(a, b) ==
    IF a.eligible # b.eligible
    THEN Num(b.eligible) - Num(a.eligible)
    ELSE b.matchScore - a.matchScore

\* a sort that puts an element before the elements it compares equal to
RECURSIVE InsertSortedUnstable(_, _)
InsertSortedUnstable(sorted, x) ==
    IF sorted = <<>> THEN <<x>>
    ELSE IF compare(Head(sorted), x) >= 0
         THEN <<x>> \o sorted
         ELSE <<Head(sorted)>> \o InsertSortedUnstable(Tail(sorted), x)

\* Array.prototype.sort: sorted by the comparator, equal elements keep their order
RECURSIVE InsertSorted(_, _)
InsertSorted(sorted, x) ==
    IF sorted = <<>> THEN <<x>>
    ELSE IF compare(Head(sorted), x) > 0
         THEN <<x>> \o sorted
         ELSE <<Head(sorted)>> \o InsertSorted(Tail(sorted), x)

RECURSIVE SortResults(_)
SortResults(list) ==
    IF list = <<>> THEN <<>>
    ELSE InsertSorted(SortResults(SubSeq(list, 1, Len(list) - 1)), list[Len(list)])

\* results after the sort
RankSchemes(answers) == SortResults(EvaluateAll(answers))

\* results.filter(r => r.eligible).length
EligibleCount(list) == Cardinality({i \in 1..Len(list) : list[i].eligible})

\* the rendered result list: the count in the heading and results.slice(0, 8)
Render(list) == [eligibleCount |-> EligibleCount(list), items |-> Slice0(list, 8)]

NothingRendered == [eligibleCount |-> 0, items |-> <<>>]

----------------------------------------------------------------------------
(* The wizard's handlers *)

Op(name, q, v, alert, evalRuns) ==
    [op |-> name, q |-> q, v |-> v, alert |-> alert, evalRuns |-> evalRuns]

\* the options renderEligibilityQuestion marks 'selected' for question q
SelectedFor(q, answers) ==
    IF q.type = "multi"
    THEN {o \in OptionSet(q) : Includes(answers[q.id], o)}
    ELSE {o \in OptionSet(q) : answers[q.id] = Str(o)}

\* renderEligibilityQuestion() for the given step and answers: replaces the content
\* of #eligibility-questions and updates the previous button
renderEligibilityQuestion(step, answers) ==
    /\ view' = "question"
    /\ selectedDom' = SelectedFor(eligibilityQuestions[step + 1], answers)
    /\ prevDisplay' = IF step > 0 THEN "block" ELSE "none"
    /\ results' = <<>>
    /\ displayed' = NothingRendered

\* startEligibilityCheck without the reset of eligibilityAnswers
startEligibilityCheckKeepingAnswers ==
    /\ eligibilityStep' = 0
    /\ modalActive' = TRUE
    /\ renderEligibilityQuestion(0, eligibilityAnswers)
    /\ touched' = {}
    /\ lastOp' = Op("start", "", "", FALSE, 0)
    /\ UNCHANGED <<eligibilityAnswers, footerDisplay, catalog>>

startEligibilityCheck ==
    /\ eligibilityStep' = 0
    /\ eligibilityAnswers' = EmptyAnswers
    /\ modalActive' = TRUE
    /\ renderEligibilityQuestion(0, EmptyAnswers)
    /\ touched' = {}
    /\ lastOp' = Op("start", "", "", FALSE, 0)
    /\ UNCHANGED <<footerDisplay, catalog>>

closeEligibilityModal ==
    /\ modalActive' = FALSE
    /\ lastOp' = Op("close", "", "", FALSE, 0)
    /\ UNCHANGED <<catalog, eligibilityStep, eligibilityAnswers, view, selectedDom, prevDisplay,
                   footerDisplay, results, displayed, touched>>

\* selectEligibilityOption that stores only a first answer
selectEligibilityOptionFirstOnly(questionId, value) ==
    /\ selectedDom' = {value}
    /\ eligibilityAnswers' =
           IF Falsy(eligibilityAnswers[questionId])
           THEN [eligibilityAnswers EXCEPT ![questionId] = Str(value)]
           ELSE eligibilityAnswers
    /\ touched' = touched \cup {questionId}
    /\ lastOp' = Op("select", questionId, value, FALSE, 0)
    /\ UNCHANGED <<catalog, eligibilityStep, modalActive, view, prevDisplay, footerDisplay,
                   results, displayed>>

selectEligibilityOption(questionId, value) ==
    /\ selectedDom' = {value}
    /\ eligibilityAnswers' = [eligibilityAnswers EXCEPT ![questionId] = Str(value)]
    /\ touched' = touched \cup {questionId}
    /\ lastOp' = Op("select", questionId, value, FALSE, 0)
    /\ UNCHANGED <<catalog, eligibilityStep, modalActive, view, prevDisplay, footerDisplay,
                   results, displayed>>

\* toggleEligibilityOption without the indexOf test: always pushes
toggleEligibilityOptionAlwaysPush(questionId, value) ==
    LET list == IF Falsy(eligibilityAnswers[questionId])
                THEN <<>> ELSE eligibilityAnswers[questionId].a
    IN  /\ eligibilityAnswers' =
               [eligibilityAnswers EXCEPT ![questionId] = Arr(Push(list, value))]
        /\ selectedDom' = selectedDom \cup {value}
        /\ touched' = touched \cup {questionId}
        /\ lastOp' = Op("toggle", questionId, value, FALSE, 0)
        /\ UNCHANGED <<catalog, eligibilityStep, modalActive, view, prevDisplay, footerDisplay,
                       results, displayed>>

\* a non-empty string under the key has indexOf but neither push nor splice: the
\* call ends in a TypeError before anything is written
toggleEligibilityOption(questionId, value) ==
    LET list == IF Falsy(eligibilityAnswers[questionId])
                THEN <<>> ELSE eligibilityAnswers[questionId].a
        idx == IndexOf(list, value)
    IN  IF eligibilityAnswers[questionId].t = "str" /\ eligibilityAnswers[questionId].s # ""
        THEN /\ lastOp' = Op("toggle-TypeError", questionId, value, FALSE, 0)
             /\ UNCHANGED <<catalog, eligibilityStep, eligibilityAnswers, modalActive, view,
                            selectedDom, prevDisplay, footerDisplay, results, displayed,
                            touched>>
        ELSE /\ IF idx = -1
                THEN /\ eligibilityAnswers' =
                            [eligibilityAnswers EXCEPT ![questionId] = Arr(Push(list, value))]
                     /\ selectedDom' = selectedDom \cup {value}
                ELSE /\ eligibilityAnswers' =
                            [eligibilityAnswers EXCEPT ![questionId] = Arr(Splice1(list, idx))]
                     /\ selectedDom' = selectedDom \ {value}
             /\ touched' = touched \cup {questionId}
             /\ lastOp' = Op("toggle", questionId, value, FALSE, 0)
             /\ UNCHANGED <<catalog, eligibilityStep, modalActive, view, prevDisplay,
                            footerDisplay, results, displayed>>

\* onchange of the <select>: the element itself shows the chosen option
saveEligibilityAnswer(questionId, value) ==
    /\ eligibilityAnswers' = [eligibilityAnswers EXCEPT ![questionId] = Str(value)]
    /\ selectedDom' = IF value = "" THEN {} ELSE {value}
    /\ touched' = touched \cup {questionId}
    /\ lastOp' = Op("save", questionId, value, FALSE, 0)
    /\ UNCHANGED <<catalog, eligibilityStep, modalActive, view, prevDisplay, footerDisplay,
                   results, displayed>>

\* prevEligibilityStep that drops the answer of the question it leaves
prevEligibilityStepClearing ==
    /\ IF eligibilityStep > 0
       THEN /\ eligibilityStep' = eligibilityStep - 1
            /\ eligibilityAnswers' =
                   [eligibilityAnswers EXCEPT ![CurrentQuestion.id] = Undef]
            /\ renderEligibilityQuestion(eligibilityStep - 1, eligibilityAnswers')
       ELSE UNCHANGED <<eligibilityStep, eligibilityAnswers, view, selectedDom,
                        prevDisplay, results, displayed>>
    /\ lastOp' = Op("prev", "", "", FALSE, 0)
    /\ UNCHANGED <<modalActive, footerDisplay, touched, catalog>>

prevEligibilityStep ==
    /\ IF eligibilityStep > 0
       THEN /\ eligibilityStep' = eligibilityStep - 1
            /\ renderEligibilityQuestion(eligibilityStep - 1, eligibilityAnswers)
       ELSE UNCHANGED <<eligibilityStep, view, selectedDom, prevDisplay, results, displayed>>
    /\ lastOp' = Op("prev", "", "", FALSE, 0)
    /\ UNCHANGED <<eligibilityAnswers, modalActive, footerDisplay, touched, catalog>>

\* showEligibilityResults that leaves the footer on screen
showEligibilityResultsKeepingFooter ==
    /\ results' = RankSchemes(eligibilityAnswers)
    /\ displayed' = Render(results')
    /\ view' = "results"
    /\ selectedDom' = {}
    /\ UNCHANGED <<prevDisplay, footerDisplay, catalog>>

\* showEligibilityResults that leaves SCHEMES in the order of the ranking
showEligibilityResultsSortingCatalog ==
    /\ results' = RankSchemes(eligibilityAnswers)
    /\ displayed' = Render(results')
    /\ view' = "results"
    /\ selectedDom' = {}
    /\ footerDisplay' = "none"
    /\ catalog' = [i \in 1..Len(results') |-> results'[i].scheme]
    /\ UNCHANGED prevDisplay

\* evaluates, sorts and renders; hides the footer
showEligibilityResults ==
    /\ results' = RankSchemes(eligibilityAnswers)
    /\ displayed' = Render(results')
    /\ view' = "results"
    /\ selectedDom' = {}
    /\ footerDisplay' = "none"
    /\ UNCHANGED <<prevDisplay, catalog>>

\* AnswerMissing without the test for an empty array
AnswerMissingNoArrayTest(x) == Falsy(x)

\* AnswerMissing with the !answer test left out
AnswerMissingEmptyArrayOnly(x) == IsEmptyArray(x)

\* AnswerMissing testing only for an answer never given (answer === undefined)
AnswerMissingUndefinedOnly(x) == x.t = "undef"

\* the test of nextEligibilityStep's if: !answer || (Array.isArray(answer) && answer.length === 0)
AnswerMissing(x) == Falsy(x) \/ IsEmptyArray(x)

nextEligibilityStep ==
    LET q == CurrentQuestion
    IN  /\ IF AnswerMissing(eligibilityAnswers[q.id])
           THEN /\ lastOp' = Op("next", "", "", TRUE, 0)
                /\ UNCHANGED <<eligibilityStep, view, selectedDom, prevDisplay,
                               footerDisplay, results, displayed, catalog>>
           ELSE IF eligibilityStep < LastStep
           THEN /\ eligibilityStep' = eligibilityStep + 1
                /\ renderEligibilityQuestion(eligibilityStep + 1, eligibilityAnswers)
                /\ lastOp' = Op("next", "", "", FALSE, 0)
                /\ UNCHANGED <<footerDisplay, catalog>>
           ELSE /\ showEligibilityResults
                /\ lastOp' = Op("next", "", "", FALSE, 1)
                /\ UNCHANGED eligibilityStep
        /\ UNCHANGED <<eligibilityAnswers, modalActive, touched>>

----------------------------------------------------------------------------
(* The page after load *)

Init ==
    /\ eligibilityStep = 0
    /\ eligibilityAnswers = EmptyAnswers
    /\ modalActive = FALSE
    /\ view = "none"
    /\ selectedDom = {}
    /\ prevDisplay = "none"
    /\ footerDisplay = "shown"
    /\ results = <<>>
    /\ displayed = NothingRendered
    /\ catalog = SCHEMES
    /\ lastOp = Op("load", "", "", FALSE, 0)
    /\ touched = {}

\* the options of question q that the runs click
Clickable(q) == {q.options[i] : i \in 1..(IF Len(q.options) < MaxOptions
                                          THEN Len(q.options) ELSE MaxOptions)}

\* the rendered question offers the control of its own type only
Offers(type) == view = "question" /\ CurrentQuestion.type = type

----------------------------------------------------------------------------
(* Spec: the handlers called as operations. The answer handlers are called  *)
(* from the controls of the rendered question; start, close, next and       *)
(* previous are called at any time.                                         *)

Start == startEligibilityCheck

Close == closeEligibilityModal

ChangeSelect ==
    /\ Offers("select")
    /\ \E v \in {""} \cup Clickable(CurrentQuestion) :
           saveEligibilityAnswer(CurrentQuestion.id, v)

ClickOption ==
    /\ Offers("options")
    /\ \E v \in Clickable(CurrentQuestion) : selectEligibilityOption(CurrentQuestion.id, v)

ClickMulti ==
    /\ Offers("multi")
    /\ \E v \in Clickable(CurrentQuestion) : toggleEligibilityOption(CurrentQuestion.id, v)

Advance == nextEligibilityStep

Retreat == prevEligibilityStep

Next ==
    \/ Start
    \/ Close
    \/ ChangeSelect
    \/ ClickOption
    \/ ClickMulti
    \/ Advance
    \/ Retreat

Spec == Init /\ [][Next]_vars

----------------------------------------------------------------------------
(* SpecApi: Spec, and a caller that also passes the answer handlers an      *)
(* identifier that is no question's id while a question is shown.           *)

SelectUnknown ==
    /\ view = "question"
    /\ selectEligibilityOption(UnknownId, UnknownValue)

SaveUnknown ==
    /\ view = "question"
    /\ \E v \in {"", UnknownValue} : saveEligibilityAnswer(UnknownId, v)

ToggleUnknown ==
    /\ view = "question"
    /\ toggleEligibilityOption(UnknownId, UnknownValue)

NextApi ==
    \/ Next
    \/ SelectUnknown
    \/ SaveUnknown
    \/ ToggleUnknown

SpecApi == Init /\ [][NextApi]_vars

----------------------------------------------------------------------------
(* SpecUI: the handlers driven through the page. A control is used only     *)
(* while the modal is open; the next and previous buttons sit in the footer *)
(* that showEligibilityResults hides, and the previous button is hidden at  *)
(* the first question.                                                      *)

ModalOpen == modalActive

NavVisible == ModalOpen /\ footerDisplay # "none"

UiStart == startEligibilityCheck

UiClose == ModalOpen /\ closeEligibilityModal

UiChangeSelect == ModalOpen /\ ChangeSelect

UiClickOption == ModalOpen /\ ClickOption

UiClickMulti == ModalOpen /\ ClickMulti

UiClickNext == NavVisible /\ nextEligibilityStep

UiClickPrev == NavVisible /\ prevDisplay # "none" /\ prevEligibilityStep

NextUI ==
    \/ UiStart
    \/ UiClose
    \/ UiChangeSelect
    \/ UiClickOption
    \/ UiClickMulti
    \/ UiClickNext
    \/ UiClickPrev

SpecUI == Init /\ [][NextUI]_vars

----------------------------------------------------------------------------
(* SpecEval: the evaluation applied to every completed answer store. A run  *)
(* starts at the last question with all five questions answered and the     *)
(* check button is pressed.                                                 *)

\* the lists toggleEligibilityOption can build: no value twice, at most n long
InterestLists(n) ==
    LET opts == OptionSet(eligibilityQuestions[4])
    IN  {l \in UNION {[1..k -> opts] : k \in 1..n} :
            \A i, j \in 1..Len(l) : i # j => l[i] # l[j]}

CompleteAnswers ==
    {[id \in Keys |->
        CASE id = "land_size" -> Str(land)
          [] id = "farmer_type" -> Str(ftype)
          [] id = "age" -> Str(age)
          [] id = "interests" -> Arr(ints)
          [] id = "category" -> Str(cat)
          [] OTHER -> Undef] :
        land \in OptionSet(eligibilityQuestions[1]),
        ftype \in OptionSet(eligibilityQuestions[2]),
        age \in OptionSet(eligibilityQuestions[3]),
        ints \in InterestLists(MaxInterests),
        cat \in OptionSet(eligibilityQuestions[5])}

InitEval ==
    /\ eligibilityStep = LastStep
    /\ eligibilityAnswers \in CompleteAnswers
    /\ modalActive = TRUE
    /\ view = "question"
    /\ selectedDom = SelectedFor(eligibilityQuestions[LastStep + 1], eligibilityAnswers)
    /\ prevDisplay = "block"
    /\ footerDisplay = "shown"
    /\ results = <<>>
    /\ displayed = NothingRendered
    /\ catalog = SCHEMES
    /\ lastOp = Op("select", "category", eligibilityAnswers["category"].s, FALSE, 0)
    /\ touched = QuestionIds

CheckEligibility == UiClickNext

NextEval == CheckEligibility

SpecEval == InitEval /\ [][NextEval]_vars

----------------------------------------------------------------------------
(* Properties of the wizard *)

Range(list) == {list[i] : i \in 1..Len(list)}

\* the values an answer holds: none for undefined, '' and []
Held(x) ==
    IF x.t = "arr" THEN Range(x.a)
    ELSE IF x.t = "str" /\ x.s # "" THEN {x.s} ELSE {}

CurrentAnswer == eligibilityAnswers[CurrentQuestion.id]

\* C1: an advance (nextEligibilityStep) made while the answer of the current
\* question is absent, '' or an empty list fails with the alert and leaves the
\* index and the whole answer store as they were; it does not show results and
\* does not run the evaluation.
C1_AdvanceRejectsMissingAnswer ==
    [][(lastOp'.op = "next" /\ CurrentAnswer \in {Undef, Str(""), Arr(<<>>)})
          => /\ lastOp'.alert
             /\ lastOp'.evalRuns = 0
             /\ eligibilityStep' = eligibilityStep
             /\ eligibilityAnswers' = eligibilityAnswers
             /\ view' = view
             /\ results' = results
             /\ displayed' = displayed]_vars

\* an advance was just refused on the multi-select question whose list was toggled back to empty
C1_Witness ==
    /\ lastOp.op = "next"
    /\ lastOp.alert
    /\ CurrentQuestion.type = "multi"
    /\ eligibilityAnswers["interests"] = Arr(<<>>)
    /\ view = "question"

\* every scheme of the catalog appears exactly once in list
CoversCatalog(list) ==
    /\ Len(list) = Len(SCHEMES)
    /\ \A k \in 1..Len(SCHEMES) :
           Cardinality({i \in 1..Len(list) : list[i].scheme = SCHEMES[k]}) = 1

\* C2: an advance made with a present, non-empty answer of the current question
\* increases the index by exactly 1 without evaluating when the index is below 4,
\* and at index 4 shows the results after one evaluation of the whole catalog;
\* the answer store is unchanged in both cases.
C2_AdvanceWithValidAnswer ==
    [][(lastOp'.op = "next" /\ Held(CurrentAnswer) # {})
          => /\ ~lastOp'.alert
             /\ eligibilityAnswers' = eligibilityAnswers
             /\ IF eligibilityStep < 4
                THEN /\ eligibilityStep' = eligibilityStep + 1
                     /\ lastOp'.evalRuns = 0
                     /\ view' = "question"
                     /\ results' = <<>>
                ELSE /\ eligibilityStep' = eligibilityStep
                     /\ lastOp'.evalRuns = 1
                     /\ view' = "results"
                     /\ CoversCatalog(results')]_vars

\* the last question was answered and the advance showed the results
C2_Witness ==
    /\ lastOp.op = "next"
    /\ lastOp.evalRuns = 1
    /\ view = "results"
    /\ eligibilityStep = 4
    /\ Len(results) = 18

\* C3: a retreat (prevEligibilityStep) decreases the index by exactly 1 when it is
\* above 0 and changes nothing at index 0; it never changes the answer store, and
\* the question returned to is rendered with its stored answer selected.
C3_RetreatKeepsAnswers ==
    [][lastOp'.op = "prev"
          => /\ eligibilityAnswers' = eligibilityAnswers
             /\ IF eligibilityStep > 0
                THEN /\ eligibilityStep' = eligibilityStep - 1
                     /\ view' = "question"
                     /\ selectedDom' = Held(eligibilityAnswers[eligibilityQuestions[eligibilityStep].id])
                ELSE UNCHANGED <<eligibilityStep, eligibilityAnswers, modalActive, view,
                                 selectedDom, prevDisplay, footerDisplay, results,
                                 displayed, touched>>]_vars

\* a retreat from the interests question came back to the age question, whose answer is still selected
C3_Witness ==
    /\ lastOp.op = "prev"
    /\ eligibilityStep = 2
    /\ eligibilityAnswers["age"] = Str("30-40")
    /\ selectedDom = {"30-40"}
    /\ eligibilityAnswers["interests"] = Arr(<<"credit">>)

\* C4: the index stays within 0..4; a single operation changes it by at most 1,
\* except a restart, which sets it to 0; the results are entered only by an
\* advance made at index 4.
C4_NoSkipping ==
    /\ [](eligibilityStep \in 0..4)
    /\ [][/\ \/ eligibilityStep' \in {eligibilityStep - 1, eligibilityStep, eligibilityStep + 1}
             \/ (lastOp'.op = "start" /\ eligibilityStep' = 0)
          /\ (view # "results" /\ view' = "results")
                => (lastOp'.op = "next" /\ eligibilityStep = 4)]_vars

\* the results were entered with the index at the last question
C4_Witness ==
    /\ view = "results"
    /\ eligibilityStep = 4
    /\ touched = QuestionIds

C6_RestartIsolation ==
    /\ [][lastOp'.op = "start"
             => eligibilityStep' = 0 /\ eligibilityAnswers' = EmptyAnswers]_vars
    /\ [](/\ \A id \in QuestionIds : eligibilityAnswers[id] # Undef => id \in touched
          /\ view = "results"
                => /\ touched = QuestionIds
                   /\ results = RankSchemes(eligibilityAnswers))

\* the wizard was restarted from the results of a completed run
C6_Witness ==
    /\ lastOp.op = "start"
    /\ footerDisplay = "none"
    /\ eligibilityStep = 0
    /\ eligibilityAnswers = EmptyAnswers

\* C7: selectSingle (selectEligibilityOption, saveEligibilityAnswer) succeeds and
\* stores exactly the value given for the question given; the other answers and
\* the index are unchanged.
C7_SelectOverwrites ==
    [][lastOp'.op \in {"select", "save"}
          => /\ ~lastOp'.alert
             /\ eligibilityAnswers' =
                    [eligibilityAnswers EXCEPT ![lastOp'.q] = Str(lastOp'.v)]
             /\ eligibilityStep' = eligibilityStep]_vars

\* a selection was just stored for the category question
C7_Witness ==
    /\ lastOp.op = "select"
    /\ lastOp.q = "category"
    /\ lastOp.v = "sc"
    /\ eligibilityAnswers["category"] = Str("sc")

\* C8: toggleMulti (toggleEligibilityOption) removes the value when it is in the
\* stored selection and adds it otherwise; the other values, the other answers
\* and the index are unchanged; no stored selection holds a value twice.
C8_ToggleFlipsMembership ==
    /\ [][lastOp'.op = "toggle"
             => LET id == lastOp'.q
                    v == lastOp'.v
                    old == Held(eligibilityAnswers[id])
                    new == Held(eligibilityAnswers'[id])
                IN  /\ eligibilityAnswers'[id].t = "arr"
                    /\ new = IF v \in old THEN old \ {v} ELSE old \cup {v}
                    /\ \A other \in QuestionIds \ {id} :
                           eligibilityAnswers'[other] = eligibilityAnswers[other]
                    /\ eligibilityStep' = eligibilityStep]_vars
    /\ [](\A id \in QuestionIds :
             LET x == eligibilityAnswers[id]
             IN  x.t = "arr" => \A i, j \in 1..Len(x.a) : i # j => x.a[i] # x.a[j])

\* a value was toggled off and on again: it now stands after a later pick
C8_Witness ==
    /\ lastOp.op = "toggle"
    /\ lastOp.v = "credit"
    /\ eligibilityAnswers["interests"] = Arr(<<"insurance", "credit">>)

----------------------------------------------------------------------------
(* Properties of the evaluation *)

LandLimitReason == "Land holding exceeds 2 hectares limit"

\* C9: when the land_size answer is medium or large, the schemes with a land-size
\* exclusion (pmkisan, pmkmy) are reported not eligible, with the land-size
\* reason among their reasons.
C9_LandExclusion ==
    (view = "results" /\ eligibilityAnswers["land_size"] \in {Str("medium"), Str("large")})
        => \A i \in 1..Len(results) :
               results[i].scheme \in {"pmkisan", "pmkmy"}
                   => /\ results[i].eligible = FALSE
                      /\ LandLimitReason \in Range(results[i].reasons)

\* a large holding of a farmer above 40: pmkmy is rejected for age and for land
C9_Witness ==
    /\ view = "results"
    /\ eligibilityAnswers["land_size"] = Str("large")
    /\ eligibilityAnswers["age"] = Str("40-60")
    /\ \E i \in 1..Len(results) :
           /\ results[i].scheme = "pmkmy"
           /\ Len(results[i].reasons) = 2
           /\ ~results[i].eligible

\* C10: in the ranked results no scheme that is not eligible stands before an
\* eligible one, whatever the scores.
C10_EligibleFirst ==
    view = "results"
        => \A i, j \in 1..Len(results) :
               (i < j /\ results[j].eligible) => results[i].eligible

\* a landless farmer interested in credit: kcc scores 50, is not eligible, and
\* stands after an eligible scheme of score 0
C10_Witness ==
    /\ view = "results"
    /\ \E i, j \in 1..Len(results) :
           /\ i < j
           /\ results[i].eligible /\ results[i].matchScore = 0
           /\ results[j].scheme = "kcc"
           /\ ~results[j].eligible /\ results[j].matchScore = 50

\* the place of a scheme in the catalog
CatalogIndex(scheme) == CHOOSE k \in 1..Len(SCHEMES) : SCHEMES[k] = scheme

\* C11: among results with the same eligibility verdict the ranked list is in
\* non-increasing order of matchScore: of two adjacent results with the same
\* eligible flag the earlier one scores at least as much as the later one.
C11_ScoreDescending ==
    view = "results"
        => \A i \in 1..(Len(results) - 1) :
               results[i].eligible = results[i + 1].eligible
                   => results[i].matchScore >= results[i + 1].matchScore

\* three different scores follow one another among the eligible results
C11_Witness ==
    /\ view = "results"
    /\ \E i \in 1..(Len(results) - 2) :
           /\ results[i].eligible /\ results[i + 1].eligible /\ results[i + 2].eligible
           /\ results[i].matchScore > results[i + 1].matchScore
           /\ results[i + 1].matchScore > results[i + 2].matchScore

\* C12: two schemes with the same eligibility verdict and the same matchScore
\* stand in the ranked list in the order they have in the SCHEMES catalog.
C12_StableTies ==
    view = "results"
        => \A i, j \in 1..Len(results) :
               (/\ i < j
                /\ results[i].eligible = results[j].eligible
                /\ results[i].matchScore = results[j].matchScore)
                   => CatalogIndex(results[i].scheme) < CatalogIndex(results[j].scheme)

\* kcc and pmkmy are both eligible with score 60, and kcc stands right before pmkmy
C12_Witness ==
    /\ view = "results"
    /\ \E i \in 1..(Len(results) - 1) :
           /\ results[i].scheme = "kcc" /\ results[i + 1].scheme = "pmkmy"
           /\ results[i].eligible /\ results[i + 1].eligible
           /\ results[i].matchScore = 60 /\ results[i + 1].matchScore = 60

\* the answers with interest x selected in addition (pushed by toggleEligibilityOption)
WithInterest(answers, x) ==
    [answers EXCEPT !["interests"] = Arr(Push(OrEmpty(@), x))]

\* the schemes listed under interest x in the interest map
TaggedSchemes(x) ==
    CASE x = "credit" -> {"kcc", "aif", "acabc"}
      [] x = "insurance" -> {"pmfby"}
      [] x = "subsidy" -> {"pmkisan", "soil", "smam", "nfsm", "pmfme", "rkvy"}
      [] x = "irrigation" -> {"pmksy"}
      [] x = "organic" -> {"pkvy", "gobar"}
      [] x = "pension" -> {"pmkmy"}

\* C14: adding an interest that is not yet selected lowers the matchScore of no
\* scheme and raises the matchScore of every scheme listed under that interest
\* in the interest map.
C14_MonotonicScoring ==
    view = "results"
        => \A x \in OptionSet(eligibilityQuestions[4]) \ Held(eligibilityAnswers["interests"]) :
               \A i \in 1..Len(results) :
                   LET more == EvaluateScheme(WithInterest(eligibilityAnswers, x),
                                              results[i].scheme).matchScore
                   IN  /\ more >= results[i].matchScore
                       /\ results[i].scheme \in TaggedSchemes(x)
                              => more > results[i].matchScore

\* results of a farmer who selected two interests and can still add credit and subsidy
C14_Witness ==
    /\ view = "results"
    /\ eligibilityAnswers["interests"] = Arr(<<"pension", "insurance">>)
    /\ \E i \in 1..Len(results) : results[i].scheme = "acabc" /\ results[i].matchScore = 0

\* C15: the ranked list holds every one of the 18 schemes exactly once, and the
\* list handed to display is the first 8 entries of that ranking, in its order.
C15_RankAllShowTopEight ==
    view = "results"
        => /\ Len(results) = 18
           /\ \A k \in 1..Len(SCHEMES) :
                  Cardinality({i \in 1..Len(results) : results[i].scheme = SCHEMES[k]}) = 1
           /\ Len(displayed.items) = 8
           /\ \A i \in 1..8 : displayed.items[i] = results[i]

\* results are on screen; the ninth-ranked scheme scores as much as the eighth and is not shown
C15_Witness ==
    /\ view = "results"
    /\ Len(displayed.items) = 8
    /\ Len(results) = 18
    /\ results[9].matchScore = results[8].matchScore
    /\ results[9].eligible = results[8].eligible
    /\ \A i \in 1..8 : displayed.items[i].scheme # results[9].scheme

\* C16: the evaluation, scoring and ranking change neither the answer store nor
\* the index nor the SCHEMES catalog: after a run the store holds the answers it
\* held before and the catalog has its declared content and order.
C16_EvaluationReadsOnly ==
    [][lastOp'.evalRuns = 1
          => /\ eligibilityAnswers' = eligibilityAnswers
             /\ eligibilityStep' = eligibilityStep
             /\ catalog' = catalog
             /\ catalog' = SCHEMES]_vars

\* a run whose ranking starts with another scheme than the catalog does
C16_Witness ==
    /\ view = "results"
    /\ lastOp.evalRuns = 1
    /\ results[1].scheme # SCHEMES[1]
    /\ catalog = SCHEMES
    /\ eligibilityAnswers \in CompleteAnswers

ScenarioAnswers(first, second) ==
    [id \in DOMAIN eligibilityAnswers |->
        CASE id = "land_size" -> Str("small")
          [] id = "farmer_type" -> Str("owner")
          [] id = "age" -> Str("18-30")
          [] id = "interests" -> Arr(<<first, second>>)
          [] id = "category" -> Str("general")
          [] OTHER -> Undef]

InScenario ==
    eligibilityAnswers \in {ScenarioAnswers("pension", "credit"),
                            ScenarioAnswers("credit", "pension")}

\* C18: for land_size small, farmer_type owner, age 18-30, interests pension and
\* credit, category general: pmkmy and kcc are both eligible, each with the
\* interest-overlap bonus (20) and the land-size bonus (10) in its score on top
\* of its own interest bonus (30); pmkisan, the other scheme with a land-size
\* exclusion, is eligible too.
C18_Scenario ==
    (view = "results" /\ InScenario)
        => \A i \in 1..Len(results) :
               /\ results[i].scheme \in {"pmkmy", "kcc"}
                      => /\ results[i].eligible
                         /\ results[i].reasons = <<>>
                         /\ InterestScore(eligibilityAnswers["interests"].a, results[i].scheme) = 20
                         /\ results[i].matchScore = 30 + 20 + 10
               /\ results[i].scheme = "pmkisan"
                      => results[i].eligible /\ results[i].matchScore = 20 + 10

\* the scenario's results are on screen, kcc and pmkmy leading the ranking
C18_Witness ==
    /\ view = "results"
    /\ InScenario
    /\ results[1].scheme = "kcc"
    /\ results[2].scheme = "pmkmy"
    /\ displayed.eligibleCount = 18

\* C19: selectSingle and toggleMulti called with an identifier that is no
\* question's id are refused: the answer store never gets an entry for it.
C19_UnknownQuestionRejected ==
    /\ eligibilityAnswers[UnknownId] = Undef
    /\ UnknownId \notin touched

\* the question at 0-based position i of eligibilityQuestions
QuestionAt(i) == eligibilityQuestions[i + 1]

\* the entry holds at least one value, each one an option of the question, none twice
ValidNonEmpty(q) ==
    LET x == eligibilityAnswers[q.id]
    IN  /\ Held(x) # {}
        /\ Held(x) \subseteq OptionSet(q)
        /\ x.t = "arr" => Cardinality(Range(x.a)) = Len(x.a)

\* the entry is '' (the placeholder of a select) or [] (a multi-select with every
\* value toggled off)
EmptyEntry(q) ==
    \/ q.type = "select" /\ eligibilityAnswers[q.id] = Str("")
    \/ q.type = "multi" /\ eligibilityAnswers[q.id] = Arr(<<>>)

\* C20 as stated: a question has an entry in the answer store only if the
\* entry holds at least one valid value of the question's option list; the
\* store never holds '' or an empty list.
C20_NoEmptyEntries ==
    \A i \in 0..LastStep :
        eligibilityAnswers[QuestionAt(i).id] # Undef => ValidNonEmpty(QuestionAt(i))

\* C20 amended: an entry of the answer store is either a non-empty answer
\* made of the question's options, or '' for the select question, or [] for
\* the multi-select question; the empty entries occur only at the question
\* shown or a later one: every question before the current index, and every
\* question once the results are shown, holds at least one valid value.
C20_EmptyEntriesOnlyFromCurrent ==
    \A i \in 0..LastStep :
        /\ eligibilityAnswers[QuestionAt(i).id] # Undef =>
               ValidNonEmpty(QuestionAt(i)) \/ EmptyEntry(QuestionAt(i))
        /\ (i < eligibilityStep \/ view = "results") => ValidNonEmpty(QuestionAt(i))

\* the store holds '' for the select question and [] for the multi-select
\* question, the wizard having gone back from the multi-select question
C20_Witness ==
    /\ view = "question"
    /\ lastOp.op = "save"
    /\ \E i \in 0..LastStep : QuestionAt(i).type = "select" /\ EmptyEntry(QuestionAt(i))
    /\ \E i \in 0..LastStep : QuestionAt(i).type = "multi" /\ EmptyEntry(QuestionAt(i))

----------------------------------------------------------------------------
(* Properties of the score *)

ScStReason == "Higher subsidy rate for SC/ST (33% vs 25%)"

\* the farmer answered sc or st to the category question
IsScSt == eligibilityAnswers["category"] \in {Str("sc"), Str("st")}

\* the farmer's land-size bracket is marginal or small
IsSmallHolder == eligibilityAnswers["land_size"] \in {Str("marginal"), Str("small")}

\* the number of selected interests whose tag list holds the scheme
OverlapCount(scheme) ==
    Cardinality({x \in Held(eligibilityAnswers["interests"]) : scheme \in TaggedSchemes(x)})

\* the interest a scheme's own rule block rewards
OwnInterest(scheme) ==
    CASE scheme = "pmkmy" -> "pension"
      [] scheme = "kcc" -> "credit"
      [] scheme = "pmfby" -> "insurance"
      [] scheme = "pmksy" -> "irrigation"
      [] scheme \in {"pkvy", "gobar"} -> "organic"
      [] OTHER -> "none"

\* what a scheme's own rule block adds: 20 for pmkisan within the land limit, 30
\* for the scheme's own interest
OwnRuleContribution(scheme) ==
    (IF scheme = "pmkisan" /\ IsSmallHolder THEN 20 ELSE 0)
    + (IF OwnInterest(scheme) \in Held(eligibilityAnswers["interests"]) THEN 30 ELSE 0)

ScStContribution(scheme) ==
    IF IsScSt /\ scheme \in {"smam", "deds", "midh"} THEN 15 ELSE 0

\* C21: for a category answer of sc or st, each of smam, deds and midh is
\* eligible, has exactly the one SC/ST bonus reason and scores 15 on top of its
\* land-size and interest contributions; for any other category answer these
\* schemes have no reason at all and no such 15.
C21_ScStBonusKeepsEligible ==
    view = "results"
        => \A i \in 1..Len(results) :
               results[i].scheme \in {"smam", "deds", "midh"}
                   => /\ results[i].eligible
                      /\ results[i].reasons = IF IsScSt THEN <<ScStReason>> ELSE <<>>
                      /\ results[i].matchScore =
                             (IF IsScSt THEN 15 ELSE 0)
                             + (IF IsSmallHolder THEN 10 ELSE 0)
                             + 20 * OverlapCount(results[i].scheme)

\* results of an st farmer: deds is eligible and carries the bonus reason
C21_Witness ==
    /\ view = "results"
    /\ eligibilityAnswers["category"] = Str("st")
    /\ \E i \in 1..Len(results) :
           /\ results[i].scheme = "deds"
           /\ results[i].eligible
           /\ results[i].reasons = <<ScStReason>>
           /\ results[i].matchScore = 15

\* C22: the interest-overlap part of a matchScore is 20 for every selected
\* interest whose tag list holds the scheme, counted once per selected
\* interest, for eligible and ineligible schemes alike: what is left of the
\* score after it is the scheme's own rule, SC/ST and land-size contributions.
C22_InterestOverlap ==
    view = "results"
        => \A i \in 1..Len(results) :
               results[i].matchScore - 20 * OverlapCount(results[i].scheme) =
                   OwnRuleContribution(results[i].scheme)
                   + ScStContribution(results[i].scheme)
                   + (IF IsSmallHolder THEN 10 ELSE 0)

\* a landless farmer interested in credit: kcc is rejected and still gets the
\* overlap bonus (30 + 20)
C22_Witness ==
    /\ view = "results"
    /\ eligibilityAnswers["farmer_type"] = Str("landless")
    /\ "credit" \in Held(eligibilityAnswers["interests"])
    /\ ~IsSmallHolder
    /\ \E i \in 1..Len(results) :
           /\ results[i].scheme = "kcc"
           /\ ~results[i].eligible
           /\ results[i].matchScore = 50

\* C23: no matchScore is negative, and the land-size part of every score,
\* eligible or not, is 10 exactly when land_size is marginal or small and 0
\* otherwise.
C23_NonNegativeLandBonus ==
    view = "results"
        => \A i \in 1..Len(results) :
               LET rest == OwnRuleContribution(results[i].scheme)
                           + ScStContribution(results[i].scheme)
                           + 20 * OverlapCount(results[i].scheme)
               IN  /\ results[i].matchScore >= 0
                   /\ rest >= 0
                   /\ IsSmallHolder => results[i].matchScore = rest + 10
                   /\ ~IsSmallHolder => results[i].matchScore = rest

\* a landless smallholder: kcc is rejected and still scores the 10
C23_Witness ==
    /\ view = "results"
    /\ eligibilityAnswers["farmer_type"] = Str("landless")
    /\ eligibilityAnswers["land_size"] = Str("small")
    /\ \E i \in 1..Len(results) :
           /\ results[i].scheme = "kcc"
           /\ ~results[i].eligible
           /\ results[i].matchScore = 10

----------------------------------------------------------------------------
(* Properties of the answers behind the current question *)

\* the question was answered: a non-empty string for a single choice, a
\* non-empty list for the multi-select, made of the question's options
Answered(q) ==
    LET x == eligibilityAnswers[q.id]
    IN  IF q.type = "multi"
        THEN x.t = "arr" /\ x.a # <<>> /\ Range(x.a) \subseteq OptionSet(q)
        ELSE x.t = "str" /\ x.s \in OptionSet(q)

\* C24: with answers changed only through the controls of the question shown,
\* every question before the current index is answered in every reachable
\* state, and when the results are shown all five questions are answered, the
\* interests answer being a non-empty list; going back, choosing the dropdown
\* placeholder again and toggling every interest off do not break this.
C24_AnsweredBehindCurrent ==
    /\ \A i \in 0..LastStep : i < eligibilityStep => Answered(QuestionAt(i))
    /\ view = "results"
           => /\ \A i \in 0..LastStep : Answered(QuestionAt(i))
              /\ eligibilityAnswers["interests"].t = "arr"
              /\ Len(eligibilityAnswers["interests"].a) >= 1

\* the farmer went back from the interests question to the first one: the
\* dropdown holds the placeholder, the interests were toggled back to empty and
\* the questions in between keep their answers
C24_Witness ==
    /\ view = "question"
    /\ eligibilityStep = 0
    /\ lastOp.op = "save"
    /\ eligibilityAnswers["land_size"] = Str("")
    /\ eligibilityAnswers["interests"] = Arr(<<>>)
    /\ Answered(QuestionAt(1))
    /\ Answered(QuestionAt(2))

----------------------------------------------------------------------------
(* Properties of a restarted wizard *)

\* C25: a wizard restarted with startEligibilityCheck after a run that reached
\* the results can be driven to the results again: whenever a question is
\* shown in the open modal, the footer holding the next and previous buttons
\* is displayed.
C25_NavAvailableAfterRestart ==
    (modalActive /\ view = "question") => footerDisplay # "none"

----------------------------------------------------------------------------
(* Properties of the verdicts and of the displayed list *)

AgeReason == "Age must be between 18-40 years to enroll"

KccReason == "Must be owner/tenant/sharecropper"

\* C26: for every answer store only pmkisan, pmkmy and kcc can be not
\* eligible, so at most 3 of the 18 schemes are, the eligible count in the
\* heading is at least 15, and the 8 displayed results are all eligible.
C26_DisplayedAllEligible ==
    view = "results"
        => /\ {results[i].scheme : i \in {j \in 1..Len(results) : ~results[j].eligible}}
                  \subseteq {"pmkisan", "pmkmy", "kcc"}
           /\ Cardinality({i \in 1..Len(results) : ~results[i].eligible}) <= 3
           /\ displayed.eligibleCount >= 15
           /\ \A i \in 1..Len(displayed.items) : displayed.items[i].eligible

\* all three exclusions apply, kcc scores 50 and the last displayed scheme scores less
C26_Witness ==
    /\ view = "results"
    /\ displayed.eligibleCount = 15
    /\ Len(displayed.items) = 8
    /\ \E i \in 1..Len(results) :
           /\ results[i].scheme = "kcc"
           /\ ~results[i].eligible
           /\ results[i].matchScore > displayed.items[8].matchScore

\* the list with the elements at positions k and k + 1 exchanged
SwapAt(list, k) ==
    [i \in 1..Len(list) |-> IF i = k THEN list[k + 1] ELSE IF i = k + 1 THEN list[k] ELSE list[i]]

\* C27: the ranked results depend on the set of selected interests only, not
\* on the order the toggles left them in: with the other answers equal, the
\* stored list with any two neighbours exchanged gives the same ordered
\* results (every reordering is a chain of such exchanges).
C27_InterestOrderIrrelevant ==
    view = "results"
        => LET list == OrEmpty(eligibilityAnswers["interests"])
           IN  \A k \in 1..(Len(list) - 1) :
                   RankSchemes([eligibilityAnswers EXCEPT !["interests"] = Arr(SwapAt(list, k))])
                       = results

\* interests stored in another order than the options are listed in, as after
\* toggling credit off and on again
C27_Witness ==
    /\ view = "results"
    /\ eligibilityAnswers["interests"] = Arr(<<"insurance", "subsidy", "credit">>)
    /\ results[1].matchScore = 50

\* the answer store with the interests and category answers replaced by fixed ones
SameProfile(answers) ==
    [answers EXCEPT !["interests"] = Arr(<<"irrigation">>), !["category"] = Str("general")]

\* C28: the eligible flag of every scheme, and the reasons of a scheme that is
\* not eligible, are those of the answer store with the same land_size, age
\* and farmer_type answers and fixed interests and category answers: two
\* stores that agree on the three answers give every scheme the same verdict.
C28_VerdictFromThreeAnswers ==
    view = "results"
        => \A i \in 1..Len(results) :
               LET same == EvaluateScheme(SameProfile(eligibilityAnswers), results[i].scheme)
               IN  /\ results[i].eligible = same.eligible
                   /\ ~results[i].eligible => results[i].reasons = same.reasons

\* a landless sc farmer without interest in credit: kcc is rejected
C28_Witness ==
    /\ view = "results"
    /\ eligibilityAnswers["farmer_type"] = Str("landless")
    /\ eligibilityAnswers["category"] = Str("sc")
    /\ "credit" \notin Held(eligibilityAnswers["interests"])
    /\ eligibilityAnswers # SameProfile(eligibilityAnswers)
    /\ \E i \in 1..Len(results) : results[i].scheme = "kcc" /\ ~results[i].eligible

\* the exclusion reasons of a scheme, one per violated constraint, in rule order
ExclusionReasons(scheme) ==
    LET bigLand == eligibilityAnswers["land_size"] \in {Str("medium"), Str("large")}
        young == eligibilityAnswers["age"] \in {Str("18-30"), Str("30-40")}
        landless == eligibilityAnswers["farmer_type"] = Str("landless")
    IN  CASE scheme = "pmkisan" -> IF bigLand THEN <<LandLimitReason>> ELSE <<>>
          [] scheme = "pmkmy" -> (IF young THEN <<>> ELSE <<AgeReason>>)
                                 \o (IF bigLand THEN <<LandLimitReason>> ELSE <<>>)
          [] scheme = "kcc" -> IF landless THEN <<KccReason>> ELSE <<>>
          [] OTHER -> <<>>

\* C29: every result that is not eligible has a non-empty reasons list made
\* of exclusion reasons only, one per violated constraint in rule order (age
\* before land size for pmkmy), so its first reason is a disqualification
\* reason and never the bonus note.
C29_IneligibleReasons ==
    view = "results"
        => \A i \in 1..Len(results) :
               ~results[i].eligible
                   => /\ results[i].reasons # <<>>
                      /\ results[i].reasons = ExclusionReasons(results[i].scheme)
                      /\ results[i].reasons[1] \in {LandLimitReason, AgeReason, KccReason}
                      /\ ScStReason \notin Range(results[i].reasons)

\* an sc farmer above 60 with a large holding: pmkmy carries the age reason, then the land reason
C29_Witness ==
    /\ view = "results"
    /\ eligibilityAnswers["category"] = Str("sc")
    /\ eligibilityAnswers["age"] = Str("60+")
    /\ \E i \in 1..Len(results) :
           /\ results[i].scheme = "pmkmy"
           /\ ~results[i].eligible
           /\ results[i].reasons = <<AgeReason, LandLimitReason>>

====
